---- MODULE Spec2Model ----
(***************************************************************************)
(* Two-stage copy-augmented dialogue transformer                           *)
(* (implementation/tf/transformer.py): the greedy autoregressive decode    *)
(* loop, per-turn inference, the evaluation and training drivers and the   *)
(* Transformer forward pass with the copy mixture.                         *)
(*                                                                         *)
(* The neural network itself is an oracle: every decoder invocation may    *)
(* yield any argmax id of the target vocabulary, any hidden value and any  *)
(* copy score.  Real-valued quantities are exact rationals kept as integer *)
(* numerators over a stated denominator.                                   *)
(***************************************************************************)
EXTENDS Integers, Sequences, FiniteSets, TLC

\* ------------------------------------------------------------------ bounds
\* cfg.vocab_size (800 for CamRest676), scaled down: reader ids are 0..VocabSize-1
VocabSize == 5
\* auto_regress's MAX_LENGTH (256 by default), scaled down
MAX_LENGTH == 2
\* largest max_sent an evaluation is started with
MaxSent == 2
\* largest epochs train_model is started with (20 by default)
MaxEpochs == 2
\* longest id sequence a mask or a loss is computed on
MaxSeq == 3
\* most lines a pretrained-embedding file holds
MaxLines == 3

\* ------------------------------------------------------------- vocabulary
\* reader.vocab.encode on the three end markers the driver asks for
Encode(token) ==
  CASE token = "EOS_Z1" -> 1
    [] token = "EOS_Z2" -> 2
    [] token = "EOS_M"  -> 3

\* target_vocab_size = vocab_size + 1: the ids an argmax over the logits can be
TargetIds == 0..VocabSize

Min(a, b) == IF a < b THEN a ELSE b
Max(a, b) == IF a < b THEN b ELSE a

\* ------------------------------------------------------------ reader data
\* One turn of a dev/test dialogue: the fields evaluation unpacks.
TurnA == [user |-> <<4>>, response |-> <<4, 3>>, bspan |-> <<1, 4, 2>>, degree |-> <<0, 1>>]
TurnB == [user |-> <<4, 4>>, response |-> <<4, 4, 3>>, bspan |-> <<4, 1, 2>>, degree |-> <<1, 0>>]

\* One turn batch of a training dialogue batch: per-sample lists.
BatchA == [user |-> << <<4>>, <<4, 4>> >>, response |-> << <<4, 3>>, <<3>> >>,
           bspan |-> << <<1, 2>>, <<4, 1, 2>> >>, degree |-> << <<0, 1>>, <<1, 0>> >>]
BatchB == [user |-> << <<4, 4>> >>, response |-> << <<3>> >>,
           bspan |-> << <<4, 1, 2>> >>, degree |-> << <<1, 0>> >>]
BatchC == [user |-> << <<4>> >>, response |-> << <<4, 4, 3>> >>,
           bspan |-> << <<1, 4, 2>> >>, degree |-> << <<0, 1>> >>]
BatchD == [user |-> << <<4, 4>>, <<4>> >>, response |-> << <<4, 4, 3>>, <<4, 3>> >>,
           bspan |-> << <<4, 1, 4, 2>>, <<1, 2>> >>, degree |-> << <<1, 0>>, <<1, 0>> >>]

\* The readers the model is run on: train is the sequence of dialogue batches
\* mini_batch_iterator('train') yields, dev and test are lists of dialogues.
ReaderPool ==
  { [train |-> << <<BatchA, BatchD>>, <<BatchC>> >>,
     dev   |-> << <<TurnA, TurnB>> >>,
     test  |-> << <<TurnB>> >>],
    [train |-> << <<BatchB, BatchC, BatchB>>, <<BatchC, BatchB>> >>,
     dev   |-> << <<TurnB, TurnA>>, <<TurnA>> >>,
     test  |-> << <<TurnA>> >>] }

\* ------------------------------------------------------------------ state
VARIABLES
  reader,            \* the dataset reader's splits
  \* evaluation(mode, max_sent)
  ev_pc,             \* position in evaluation / evaluate
  max_sent,
  dialogue_set,
  ev_d, ev_t,        \* 1-based indices of the dialogue and turn loops
  previous_bspan, previous_response,
  n_predictions,     \* len(predictions) (= len(targets))
  \* evaluate(previous_bspan, previous_response, user, degree)
  ev_args,           \* the arguments of the running evaluate call
  predicted_bspan,
  predicted_response,
  elog,              \* decode calls and returns of the running evaluate call
  \* auto_regress(input_sequence, decoder, MAX_LENGTH)
  ar_pc,
  ar_decoder,
  input_sequence,
  output,
  end_token_id,
  ar_i,              \* the loop variable i
  ar_result,         \* the returned sequence
  ar_calls,          \* decoder invocations made by the running call
  ar_preds,          \* the argmax ids those invocations predicted, in order
  ar_stop,           \* why the call returned: "eos" or "maxlen"
  \* train_model(epochs, log, max_sent)
  tr_pc,             \* position in train_model / the running training step
  epochs,
  epoch,             \* the loop variable epoch (0-based)
  iter_num,          \* 1-based index of the dialogue batch
  turn_num,          \* 1-based index of the turn batch
  tr_previous_bspan, tr_previous_response,
  target_bspan, target_response,
  bspan_decoder_input, response_decoder_input,
  iterations,        \* optimizer.iterations: updates applied so far
  tlog,              \* what train_model has run so far, in order
  \* Transformer(..., copynet) and its last forward call
  copynet,           \* Transformer.copynet / Decoder.copynet
  params,            \* the kernels and biases of the two output projections
  fw_call,           \* the last call: which method, on which inp and tar
  fw_dec,            \* what the decoder returned to it
  fw_generated,      \* the output projection's logits
  fw_logits,         \* the logits the call returned
  fw_reads,          \* the parameter groups the call read
  \* a call of one of the module's functions
  fn_call,           \* the function and its arguments
  fn_result,         \* what it returned
  \* SeqModel(vocab_size, num_layers, d_model, dff, num_heads, ...)
  config,            \* the arguments the model is constructed with
  \* self.transformer.trainable_variables and self.optimizer
  weights,           \* variable group -> its value and Adam's first moment
  opt_step,          \* the last training step: its gradients and its rate
  model_pc,          \* "new", "constructed", or the error of the constructor
  n_calls,           \* forward calls made on the model
  shape_call         \* the last of them, as the shapes of what it returned

evalVars == <<ev_pc, max_sent, dialogue_set, ev_d, ev_t, previous_bspan,
              previous_response, n_predictions, ev_args, predicted_bspan,
              predicted_response, elog>>
arVars == <<ar_pc, ar_decoder, input_sequence, output, end_token_id, ar_i,
            ar_result, ar_calls, ar_preds, ar_stop>>
trainVars == <<tr_pc, epochs, epoch, iter_num, turn_num, tr_previous_bspan,
               tr_previous_response, target_bspan, target_response,
               bspan_decoder_input, response_decoder_input, iterations, tlog>>
fwVars == <<copynet, params, fw_call, fw_dec, fw_generated, fw_logits, fw_reads>>
fnVars == <<fn_call, fn_result>>
optVars == <<weights, opt_step>>
modelVars == <<model_pc, n_calls, shape_call>>
otherVars == <<fnVars, config, optVars, modelVars>>
vars == <<reader, evalVars, arVars, trainVars, fwVars, otherVars>>

None == <<>>
NoArgs == [previous_bspan |-> None, previous_response |-> None,
           user |-> None, degree |-> None]

\* ---------------------------------------------------------------- helpers
RECURSIVE MaxLenOf(_)
MaxLenOf(id_lists) ==
  IF id_lists = <<>> THEN 0
  ELSE Max(Len(Head(id_lists)), MaxLenOf(Tail(id_lists)))

\* tensorize: a ragged list of id lists, right-padded with 0 to a rectangle
tensorize(id_lists) ==
  [i \in DOMAIN id_lists |->
     [j \in 1..MaxLenOf(id_lists) |->
        IF j <= Len(id_lists[i]) THEN id_lists[i][j] ELSE 0]]

produce_bspan_decoder_input(prev_bspan, prev_response, user_input) ==
  tensorize([i \in 1..Min(Len(prev_bspan), Min(Len(prev_response), Len(user_input))) |->
               <<VocabSize>> \o prev_bspan[i] \o prev_response[i] \o user_input[i]])

produce_response_decoder_input(prev_bspan, prev_response, user_input, bspan, kb) ==
  tensorize([i \in 1..Min(Len(prev_bspan), Min(Len(prev_response),
                      Min(Len(user_input), Min(Len(bspan), Len(kb))))) |->
               <<VocabSize>> \o prev_bspan[i] \o prev_response[i] \o user_input[i]
                 \o bspan[i] \o kb[i]])

\* ---------------------------------------------------------- auto_regress
\* mutant of EndTokenId: the belief span ends on the informable-slot marker
EndTokenIdOfSlots(decoder) ==
  IF decoder = "bspan" THEN Encode("EOS_Z1") ELSE Encode("EOS_M")

\* end_token_id of the task
EndTokenId(decoder) ==
  IF decoder = "bspan" THEN Encode("EOS_Z2") ELSE Encode("EOS_M")

\* mutant of LoopContinues: one iteration too many
LoopContinuesOffByOne(i) == i <= MAX_LENGTH

\* for i in range(MAX_LENGTH)
LoopContinues(i) == i < MAX_LENGTH

\* The frame of a fresh auto_regress call (the assertion on decoder passed).
AutoRegressCall(inp, decoder) ==
  /\ ar_pc' = "loop"
  /\ ar_decoder' = decoder
  /\ input_sequence' = inp
  /\ output' = <<VocabSize>>
  /\ end_token_id' = EndTokenId(decoder)
  /\ ar_i' = 0
  /\ ar_result' = None
  /\ ar_calls' = 0
  /\ ar_preds' = <<>>
  /\ ar_stop' = "none"

\* the decoder names auto_regress is called with, one of them not a task
DecoderNames == {"bspan", "response", "slots"}

\* auto_regress(input_sequence, decoder) called on a constructed model: the
\* assertion on decoder, then the frame of the loop
AutoRegress ==
  /\ ar_pc = "idle"
  /\ \E decoder \in DecoderNames :
       \E inp \in { produce_bspan_decoder_input(<< <<1, 2>> >>, << <<3>> >>, << <<4>> >>),
                    produce_response_decoder_input(<< <<1, 2>> >>, << <<3>> >>, << <<4, 4>> >>,
                                                   << <<4, 1, 2>> >>, << <<0, 1>> >>) } :
         IF decoder \in {"bspan", "response"}
         THEN AutoRegressCall(inp, decoder)
         ELSE /\ ar_pc' = "AssertionError"
              /\ ar_decoder' = decoder
              /\ input_sequence' = inp
              /\ UNCHANGED <<output, end_token_id, ar_i, ar_result, ar_calls,
                             ar_preds, ar_stop>>
  /\ UNCHANGED <<reader, otherVars, evalVars, trainVars, fwVars>>

\* mutant of AutoRegressStep: the stop test is missing
AutoRegressStepNeverStops ==
  /\ ar_pc = "loop"
  /\ LoopContinues(ar_i)
  /\ \E predicted_id \in TargetIds :
       /\ ar_calls' = ar_calls + 1
       /\ ar_preds' = Append(ar_preds, predicted_id)
       /\ output' = Append(output, predicted_id)
       /\ ar_i' = ar_i + 1
       /\ UNCHANGED <<ar_pc, ar_result, ar_stop>>
  /\ UNCHANGED <<ar_decoder, input_sequence, end_token_id>>
  /\ UNCHANGED <<reader, otherVars, evalVars, trainVars, fwVars>>

\* mutant of AutoRegressStep: the end id is appended before the stop test
AutoRegressStepAppendsEnd ==
  /\ ar_pc = "loop"
  /\ LoopContinues(ar_i)
  /\ \E predicted_id \in TargetIds :
       /\ ar_calls' = ar_calls + 1
       /\ ar_preds' = Append(ar_preds, predicted_id)
       /\ output' = Append(output, predicted_id)
       /\ IF predicted_id = end_token_id
          THEN /\ ar_pc' = "returned"
               /\ ar_result' = Append(output, predicted_id)
               /\ ar_stop' = "eos"
               /\ UNCHANGED ar_i
          ELSE /\ ar_i' = ar_i + 1
               /\ UNCHANGED <<ar_pc, ar_result, ar_stop>>
  /\ UNCHANGED <<ar_decoder, input_sequence, end_token_id>>
  /\ UNCHANGED <<reader, otherVars, evalVars, trainVars, fwVars>>

\* One iteration of the loop: a decoder invocation on the partial output, the
\* last position's argmax, the stop test and the append.
AutoRegressStep ==
  /\ ar_pc = "loop"
  /\ LoopContinues(ar_i)
  /\ \E predicted_id \in TargetIds :
       /\ ar_calls' = ar_calls + 1
       /\ ar_preds' = Append(ar_preds, predicted_id)
       /\ IF predicted_id = end_token_id
          THEN /\ ar_pc' = "returned"
               /\ ar_result' = output
               /\ ar_stop' = "eos"
               /\ UNCHANGED <<output, ar_i>>
          ELSE /\ output' = Append(output, predicted_id)
               /\ ar_i' = ar_i + 1
               /\ UNCHANGED <<ar_pc, ar_result, ar_stop>>
  /\ UNCHANGED <<ar_decoder, input_sequence, end_token_id>>
  /\ UNCHANGED <<reader, otherVars, evalVars, trainVars, fwVars>>

\* The loop ran out: the return after the loop.
AutoRegressExhausted ==
  /\ ar_pc = "loop"
  /\ ~LoopContinues(ar_i)
  /\ ar_pc' = "returned"
  /\ ar_result' = output
  /\ ar_stop' = "maxlen"
  /\ UNCHANGED <<ar_decoder, input_sequence, output, end_token_id, ar_i,
                 ar_calls, ar_preds>>
  /\ UNCHANGED <<reader, otherVars, evalVars, trainVars, fwVars>>

\* ------------------------------------------------- evaluation / evaluate
EvaluationStart ==
  /\ ev_pc = "idle"
  /\ \E mode \in {"dev", "test"}, ms \in 1..MaxSent :
       /\ dialogue_set' = (IF mode = "dev" THEN reader.dev ELSE reader.test)
       /\ max_sent' = ms
  /\ n_predictions' = 0
  /\ ev_d' = 1
  /\ ev_pc' = "dialogue"
  /\ UNCHANGED <<ev_t, previous_bspan, previous_response, ev_args,
                 predicted_bspan, predicted_response, elog>>
  /\ UNCHANGED <<reader, otherVars, arVars, trainVars, fwVars>>

\* for dialogue in dialogue_set[0:max_sent]: the placeholders are set
EvaluationDialogue ==
  /\ ev_pc = "dialogue"
  /\ ev_d <= Min(max_sent, Len(dialogue_set))
  /\ previous_bspan' = <<Encode("EOS_Z1"), Encode("EOS_Z2")>>
  /\ previous_response' = <<Encode("EOS_M")>>
  /\ ev_t' = 1
  /\ ev_pc' = "turn"
  /\ UNCHANGED <<max_sent, dialogue_set, ev_d, n_predictions, ev_args,
                 predicted_bspan, predicted_response, elog>>
  /\ UNCHANGED <<reader, otherVars, arVars, trainVars, fwVars>>

\* for turn in dialogue[0:max_sent]: evaluate is called and starts the
\* belief-span decode
EvaluationTurn ==
  /\ ev_pc = "turn"
  /\ ev_t <= Min(max_sent, Len(dialogue_set[ev_d]))
  /\ LET turn == dialogue_set[ev_d][ev_t]
         bspan_input ==
           produce_bspan_decoder_input(<<previous_bspan>>, <<previous_response>>,
                                       <<turn.user>>)
     IN /\ ev_args' = [previous_bspan |-> previous_bspan,
                       previous_response |-> previous_response,
                       user |-> turn.user, degree |-> turn.degree]
        /\ AutoRegressCall(bspan_input, "bspan")
  /\ elog' = << <<"call", "bspan">> >>
  /\ ev_pc' = "evaluate_bspan"
  /\ UNCHANGED <<max_sent, dialogue_set, ev_d, ev_t, previous_bspan,
                 previous_response, n_predictions, predicted_bspan,
                 predicted_response>>
  /\ UNCHANGED <<reader, otherVars, trainVars, fwVars>>

\* mutant of EvaluateResponse: the response input repeats the previous belief
\* span where the predicted one belongs
EvaluateResponseIgnoresPrediction ==
  /\ ev_pc = "evaluate_bspan"
  /\ ar_pc = "returned"
  /\ predicted_bspan' = ar_result
  /\ LET response_input ==
           produce_response_decoder_input(<<ev_args.previous_bspan>>,
             <<ev_args.previous_response>>, <<ev_args.user>>,
             <<ev_args.previous_bspan>>, <<ev_args.degree>>)
     IN AutoRegressCall(response_input, "response")
  /\ elog' = elog \o << <<"return", "bspan", ar_result>>, <<"call", "response">> >>
  /\ ev_pc' = "evaluate_response"
  /\ UNCHANGED <<max_sent, dialogue_set, ev_d, ev_t, previous_bspan,
                 previous_response, n_predictions, ev_args, predicted_response>>
  /\ UNCHANGED <<reader, otherVars, trainVars, fwVars>>

\* evaluate: the belief-span decode returned; the response decode starts
EvaluateResponse ==
  /\ ev_pc = "evaluate_bspan"
  /\ ar_pc = "returned"
  /\ predicted_bspan' = ar_result
  /\ LET response_input ==
           produce_response_decoder_input(<<ev_args.previous_bspan>>,
             <<ev_args.previous_response>>, <<ev_args.user>>,
             <<ar_result>>, <<ev_args.degree>>)
     IN AutoRegressCall(response_input, "response")
  /\ elog' = elog \o << <<"return", "bspan", ar_result>>, <<"call", "response">> >>
  /\ ev_pc' = "evaluate_response"
  /\ UNCHANGED <<max_sent, dialogue_set, ev_d, ev_t, previous_bspan,
                 previous_response, n_predictions, ev_args, predicted_response>>
  /\ UNCHANGED <<reader, otherVars, trainVars, fwVars>>

\* evaluate returns the predicted response; evaluation records it and goes on
\* to the next turn
EvaluateReturn ==
  /\ ev_pc = "evaluate_response"
  /\ ar_pc = "returned"
  /\ n_predictions' = n_predictions + 1
  /\ ev_t' = ev_t + 1
  /\ ev_pc' = "turn"
  /\ ev_args' = NoArgs
  /\ predicted_bspan' = None
  /\ predicted_response' = None
  /\ elog' = <<>>
  /\ ar_pc' = "idle"
  /\ ar_decoder' = "none"
  /\ input_sequence' = None
  /\ output' = None
  /\ end_token_id' = 0
  /\ ar_i' = 0
  /\ ar_result' = None
  /\ ar_calls' = 0
  /\ ar_preds' = <<>>
  /\ ar_stop' = "none"
  /\ UNCHANGED <<max_sent, dialogue_set, ev_d, previous_bspan, previous_response>>
  /\ UNCHANGED <<reader, otherVars, trainVars, fwVars>>

\* the turn loop of a dialogue is over
EvaluationTurnsDone ==
  /\ ev_pc = "turn"
  /\ ev_t > Min(max_sent, Len(dialogue_set[ev_d]))
  /\ ev_d' = ev_d + 1
  /\ ev_pc' = "dialogue"
  /\ UNCHANGED <<max_sent, dialogue_set, ev_t, previous_bspan, previous_response,
                 n_predictions, ev_args, predicted_bspan, predicted_response, elog>>
  /\ UNCHANGED <<reader, otherVars, arVars, trainVars, fwVars>>

\* the dialogue loop is over: the scoring collaborator is handed the pairs
EvaluationDone ==
  /\ ev_pc = "dialogue"
  /\ ev_d > Min(max_sent, Len(dialogue_set))
  /\ ev_pc' = "done"
  /\ UNCHANGED <<max_sent, dialogue_set, ev_d, ev_t, previous_bspan,
                 previous_response, n_predictions, ev_args, predicted_bspan,
                 predicted_response, elog>>
  /\ UNCHANGED <<reader, otherVars, arVars, trainVars, fwVars>>

\* ----------------------------------------------------------- train_model
\* for epoch in range(epochs): the iterator over the training batches is made
TrainEpoch ==
  /\ tr_pc = "epoch"
  /\ epoch < epochs
  /\ iter_num' = 1
  /\ tr_pc' = "batch"
  /\ UNCHANGED <<epochs, epoch, turn_num, tr_previous_bspan, tr_previous_response,
                 target_bspan, target_response, bspan_decoder_input,
                 response_decoder_input, iterations, tlog>>
  /\ UNCHANGED <<reader, otherVars, evalVars, arVars, fwVars>>

\* mutant of TrainDialBatch: the carried context is kept across dialogue batches
TrainDialBatchKeepsContext ==
  /\ tr_pc = "batch"
  /\ iter_num <= Len(reader.train)
  /\ turn_num' = 1
  /\ tr_pc' = "turn"
  /\ UNCHANGED <<epochs, epoch, iter_num, tr_previous_bspan, tr_previous_response,
                 target_bspan, target_response,
                 bspan_decoder_input, response_decoder_input, iterations, tlog>>
  /\ UNCHANGED <<reader, otherVars, evalVars, arVars, fwVars>>

\* for iter_num, dial_batch in enumerate(data_iterator): the carried context
\* is forgotten
TrainDialBatch ==
  /\ tr_pc = "batch"
  /\ iter_num <= Len(reader.train)
  /\ tr_previous_bspan' = None
  /\ tr_previous_response' = None
  /\ turn_num' = 1
  /\ tr_pc' = "turn"
  /\ UNCHANGED <<epochs, epoch, iter_num, target_bspan, target_response,
                 bspan_decoder_input, response_decoder_input, iterations, tlog>>
  /\ UNCHANGED <<reader, otherVars, evalVars, arVars, fwVars>>

\* the context a turn is built from: the placeholders when nothing is carried
ContextBspan(prev, batch_size) ==
  IF prev = None
  THEN [i \in 1..batch_size |-> <<Encode("EOS_Z1"), Encode("EOS_Z2")>>]
  ELSE prev

ContextResponse(prev_bspan, prev_response, batch_size) ==
  IF prev_bspan = None
  THEN [i \in 1..batch_size |-> <<Encode("EOS_M")>>]
  ELSE prev_response

\* for turn_num, turn_batch in enumerate(dial_batch): the targets and the two
\* decoder inputs of the turn are built
TrainTurn ==
  /\ tr_pc = "turn"
  /\ turn_num <= Len(reader.train[iter_num])
  /\ LET turn_batch == reader.train[iter_num][turn_num]
         batch_size == Len(turn_batch.user)
         pb == ContextBspan(tr_previous_bspan, batch_size)
         pr == ContextResponse(tr_previous_bspan, tr_previous_response, batch_size)
     IN /\ tr_previous_bspan' = pb
        /\ tr_previous_response' = pr
        /\ target_bspan' =
             tensorize([i \in DOMAIN turn_batch.bspan |->
                          <<VocabSize>> \o turn_batch.bspan[i]])
        /\ target_response' =
             tensorize([i \in DOMAIN turn_batch.response |->
                          <<VocabSize>> \o turn_batch.response[i]])
        /\ bspan_decoder_input' =
             produce_bspan_decoder_input(pb, pr, turn_batch.user)
        /\ response_decoder_input' =
             produce_response_decoder_input(pb, pr, turn_batch.user,
                                            turn_batch.bspan, turn_batch.degree)
  /\ tr_pc' = "bspan_forward"
  /\ UNCHANGED <<epochs, epoch, iter_num, turn_num, iterations, tlog>>
  /\ UNCHANGED <<reader, otherVars, evalVars, arVars, fwVars>>

\* mutant of TrainStepBspanForward: the response step starts before the
\* belief-span step's optimizer update
TrainStepBspanForwardSkipsApply ==
  /\ tr_pc = "bspan_forward"
  /\ tlog' = Append(tlog, <<"bspan", "forward", epoch, iter_num, turn_num>>)
  /\ tr_pc' = "response_forward"
  /\ UNCHANGED <<epochs, epoch, iter_num, turn_num, tr_previous_bspan,
                 tr_previous_response, target_bspan, target_response,
                 bspan_decoder_input, response_decoder_input, iterations>>
  /\ UNCHANGED <<reader, otherVars, evalVars, arVars, fwVars>>

\* train_step_bspan: the forward pass, the loss and the gradients
TrainStepBspanForward ==
  /\ tr_pc = "bspan_forward"
  /\ tlog' = Append(tlog, <<"bspan", "forward", epoch, iter_num, turn_num>>)
  /\ tr_pc' = "bspan_apply"
  /\ UNCHANGED <<epochs, epoch, iter_num, turn_num, tr_previous_bspan,
                 tr_previous_response, target_bspan, target_response,
                 bspan_decoder_input, response_decoder_input, iterations>>
  /\ UNCHANGED <<reader, otherVars, evalVars, arVars, fwVars>>

\* mutant of TrainStepBspanApply: the belief-span step has an optimizer of its
\* own, and the shared step counter does not see its update
TrainStepBspanApplyOwnOptimizer ==
  /\ tr_pc = "bspan_apply"
  /\ tlog' = Append(tlog, <<"bspan", "apply", epoch, iter_num, turn_num>>)
  /\ tr_pc' = "response_forward"
  /\ UNCHANGED <<epochs, epoch, iter_num, turn_num, tr_previous_bspan,
                 tr_previous_response, target_bspan, target_response,
                 bspan_decoder_input, response_decoder_input, iterations>>
  /\ UNCHANGED <<reader, otherVars, evalVars, arVars, fwVars>>

\* train_step_bspan: optimizer.apply_gradients, then the step returns
TrainStepBspanApply ==
  /\ tr_pc = "bspan_apply"
  /\ iterations' = iterations + 1
  /\ tlog' = Append(tlog, <<"bspan", "apply", epoch, iter_num, turn_num>>)
  /\ tr_pc' = "response_forward"
  /\ UNCHANGED <<epochs, epoch, iter_num, turn_num, tr_previous_bspan,
                 tr_previous_response, target_bspan, target_response,
                 bspan_decoder_input, response_decoder_input>>
  /\ UNCHANGED <<reader, otherVars, evalVars, arVars, fwVars>>

\* train_step_response: the forward pass, the loss and the gradients
TrainStepResponseForward ==
  /\ tr_pc = "response_forward"
  /\ tlog' = Append(tlog, <<"response", "forward", epoch, iter_num, turn_num>>)
  /\ tr_pc' = "response_apply"
  /\ UNCHANGED <<epochs, epoch, iter_num, turn_num, tr_previous_bspan,
                 tr_previous_response, target_bspan, target_response,
                 bspan_decoder_input, response_decoder_input, iterations>>
  /\ UNCHANGED <<reader, otherVars, evalVars, arVars, fwVars>>

\* train_step_response: optimizer.apply_gradients; the step returns and the
\* turn's ground truth becomes the carried context
TrainStepResponseApply ==
  /\ tr_pc = "response_apply"
  /\ iterations' = iterations + 1
  /\ tlog' = Append(tlog, <<"response", "apply", epoch, iter_num, turn_num>>)
  /\ tr_previous_bspan' = reader.train[iter_num][turn_num].bspan
  /\ tr_previous_response' = reader.train[iter_num][turn_num].response
  /\ turn_num' = turn_num + 1
  /\ tr_pc' = "turn"
  /\ UNCHANGED <<epochs, epoch, iter_num, target_bspan, target_response,
                 bspan_decoder_input, response_decoder_input>>
  /\ UNCHANGED <<reader, otherVars, evalVars, arVars, fwVars>>

\* the turn loop of a dialogue batch is over
TrainTurnsDone ==
  /\ tr_pc = "turn"
  /\ turn_num > Len(reader.train[iter_num])
  /\ iter_num' = iter_num + 1
  /\ tr_pc' = "batch"
  /\ UNCHANGED <<epochs, epoch, turn_num, tr_previous_bspan, tr_previous_response,
                 target_bspan, target_response, bspan_decoder_input,
                 response_decoder_input, iterations, tlog>>
  /\ UNCHANGED <<reader, otherVars, evalVars, arVars, fwVars>>

\* the batch loop is over: self.evaluation(verbose, log, max_sent, use_metric)
\* is called on the dev split
TrainEvaluation ==
  /\ tr_pc = "batch"
  /\ iter_num > Len(reader.train)
  /\ ev_pc = "idle"
  /\ tlog' = Append(tlog, <<"evaluation", "call", epoch, 0, 0>>)
  /\ tr_pc' = "evaluation"
  /\ dialogue_set' = reader.dev
  /\ n_predictions' = 0
  /\ ev_d' = 1
  /\ ev_pc' = "dialogue"
  /\ UNCHANGED <<max_sent, ev_t, previous_bspan, previous_response, ev_args,
                 predicted_bspan, predicted_response, elog>>
  /\ UNCHANGED <<epochs, epoch, iter_num, turn_num, tr_previous_bspan,
                 tr_previous_response, target_bspan, target_response,
                 bspan_decoder_input, response_decoder_input, iterations>>
  /\ UNCHANGED <<reader, otherVars, arVars, fwVars>>

\* evaluation returned: the epoch is over
TrainEpochEnd ==
  /\ tr_pc = "evaluation"
  /\ ev_pc = "done"
  /\ tlog' = Append(tlog, <<"evaluation", "return", epoch, 0, 0>>)
  /\ epoch' = epoch + 1
  /\ tr_pc' = "epoch"
  /\ ev_pc' = "idle"
  /\ UNCHANGED <<max_sent, dialogue_set, ev_d, ev_t, previous_bspan,
                 previous_response, n_predictions, ev_args, predicted_bspan,
                 predicted_response, elog>>
  /\ UNCHANGED <<epochs, iter_num, turn_num, tr_previous_bspan,
                 tr_previous_response, target_bspan, target_response,
                 bspan_decoder_input, response_decoder_input, iterations>>
  /\ UNCHANGED <<reader, otherVars, arVars, fwVars>>

\* the epoch loop is over: train_model returns
TrainDone ==
  /\ tr_pc = "epoch"
  /\ epoch >= epochs
  /\ tr_pc' = "done"
  /\ UNCHANGED <<epochs, epoch, iter_num, turn_num, tr_previous_bspan,
                 tr_previous_response, target_bspan, target_response,
                 bspan_decoder_input, response_decoder_input, iterations, tlog>>
  /\ UNCHANGED <<reader, otherVars, evalVars, arVars, fwVars>>

\* ------------------------------------------------- Transformer forward pass
\* Exact rationals n/d (d > 0) stand for the floating-point values.
Rat(n, d) == [n |-> n, d |-> d]
Zero == Rat(0, 1)
One == Rat(1, 1)
RAdd(a, b) == Rat(a.n * b.d + b.n * a.d, a.d * b.d)
RSub(a, b) == Rat(a.n * b.d - b.n * a.d, a.d * b.d)
RMul(a, b) == Rat(a.n * b.n, a.d * b.d)
REq(a, b) == a.n * b.d = b.n * a.d
RLeq(a, b) == a.n * b.d <= b.n * a.d

RECURSIVE RSum(_)
RSum(rs) == IF rs = <<>> THEN Zero ELSE RAdd(Head(rs), RSum(Tail(rs)))

RECURSIVE ISum(_)
ISum(xs) == IF xs = <<>> THEN 0 ELSE Head(xs) + ISum(Tail(xs))

\* The calls a forward pass is made on: inp feeds the encoder, tar the decoder
\* (VocabSize is the start marker, 0 the padding).
ForwardInputs ==
  { [inp |-> << <<VocabSize, 1, 2, 3, 4>> >>, tar |-> << <<VocabSize>> >>],
    [inp |-> << <<VocabSize, 4, 4>> >>,       tar |-> << <<VocabSize, 4>> >>],
    [inp |-> << <<VocabSize, 1, 4>> >>,       tar |-> << <<VocabSize, 4, 4>> >>],
    [inp |-> << <<VocabSize, 4>> >>,          tar |-> << <<VocabSize, 4>> >>],
    [inp |-> << <<VocabSize, 4, 3>>, <<VocabSize, 3, 0>> >>, tar |-> << <<VocabSize>>, <<4>> >>] }

\* What the network's layers can compute (d_model = 1): a decoder's final
\* hidden state, the sigmoid of gen_prob, and exp of the copy network's score.
HiddenValues == {1, 2}
PGenValues == {Rat(0, 1), Rat(1, 3), Rat(1, 1)}
ScoreWeights == {1, 2}

\* The kernels and biases an output projection can hold.
ProjectionPool ==
  { [kernel |-> [v \in TargetIds |-> v],     bias |-> [v \in TargetIds |-> 0]],
    [kernel |-> [v \in TargetIds |-> 1 - v], bias |-> [v \in TargetIds |-> 1]] }

\* tf.keras.layers.Dense(target_vocab_size) of the named projection on x
Dense(layer, x) ==
  [b \in DOMAIN x |-> [t \in DOMAIN x[b] |-> [v \in TargetIds |->
     Rat(x[b][t] * params[layer].kernel[v] + params[layer].bias[v], 1)]]]

\* tf.nn.softmax over the last axis, on the exponentials w of the scores
Softmax(w) ==
  [b \in DOMAIN w |-> [t \in DOMAIN w[b] |-> Rat(w[b][t], ISum(w[b]))]]

\* tf.scatter_nd(idx, copy_probs, to_shape): position (b, t) puts its copy
\* probability in the slot of the id initial_input holds there
Scatter(initial_input, copy_probs) ==
  [b \in DOMAIN initial_input |-> [t \in DOMAIN initial_input[b] |->
     [v \in TargetIds |->
        IF v = initial_input[b][t] THEN copy_probs[b][t] ELSE Zero]]]

\* tf.reduce_sum(output, axis=1)
ReduceSumAxis1(scattered) ==
  [b \in DOMAIN scattered |-> [v \in TargetIds |->
     RSum([t \in DOMAIN scattered[b] |-> scattered[b][t][v]])]]

\* tf.tile(tf.expand_dims(copy_logits, axis=1), [1, x.shape[1], 1])
TileOverTime(copy_logits, x) ==
  [b \in DOMAIN x |-> [t \in DOMAIN x[b] |-> copy_logits[b]]]

\* Decoder.call(x, enc_output, ...): net is what its layers computed on x
DecoderCall(x, net) ==
  LET initial_input == x
      copy_probs == Softmax(net.w)
      copy_logits ==
        IF copynet
        THEN ReduceSumAxis1(Scatter(initial_input, copy_probs))
        ELSE [b \in DOMAIN initial_input |-> [v \in TargetIds |-> Zero]]
  IN [x |-> net.x,
      p_gen |-> IF copynet THEN net.p_gen
                ELSE [b \in DOMAIN x |-> [t \in DOMAIN x[b] |-> Zero]],
      copy_probs |-> IF copynet THEN copy_probs ELSE <<>>,
      copy_logits |-> TileOverTime(copy_logits, net.x)]

\* mutant of Mix: the copy logits are weighted by p_gen too
MixNoComplement(p_gen, projected, copy_logits) ==
  [b \in DOMAIN projected |-> [t \in DOMAIN projected[b] |-> [v \in TargetIds |->
     RAdd(RMul(p_gen[b][t], projected[b][t][v]),
          RMul(p_gen[b][t], copy_logits[b][t][v]))]]]

\* p_gen * output + (1 - p_gen) * copy_logits
Mix(p_gen, projected, copy_logits) ==
  [b \in DOMAIN projected |-> [t \in DOMAIN projected[b] |-> [v \in TargetIds |->
     RAdd(RMul(p_gen[b][t], projected[b][t][v]),
          RMul(RSub(One, p_gen[b][t]), copy_logits[b][t][v]))]]]

\* the decoder and the output projection each method of Transformer uses
DecoderOf(method) ==
  IF method = "bspan" THEN "bspan_decoder" ELSE "response_decoder"

FinalOf(method) ==
  IF method = "bspan" THEN "response_final" ELSE "response_final"

\* what the layers can compute on a decoder input of this shape
NetOutputs(tar) ==
  LET Shape(S) == [DOMAIN tar -> [DOMAIN tar[1] -> S]]
  IN { [x |-> h, p_gen |-> g, w |-> w] :
         h \in Shape(HiddenValues),
         g \in (IF copynet THEN Shape(PGenValues) ELSE {<<>>}),
         w \in (IF copynet THEN Shape(ScoreWeights)
                ELSE {[b \in DOMAIN tar |-> [t \in DOMAIN tar[1] |-> 1]]}) }

\* mutant of Forward: the mixture is applied whether or not copynet is set
ForwardAlwaysMixes(method) ==
  \E call \in ForwardInputs : \E net \in NetOutputs(call.tar) :
    LET dec == DecoderCall(call.tar, net)
        projected == Dense(FinalOf(method), dec.x)
    IN /\ fw_call' = [method |-> method, inp |-> call.inp, tar |-> call.tar]
       /\ fw_dec' = dec
       /\ fw_generated' = projected
       /\ fw_logits' = Mix(dec.p_gen, projected, dec.copy_logits)
       /\ fw_reads' = {"encoder", DecoderOf(method), FinalOf(method)}

\* Transformer.bspan / Transformer.response(inp, tar, ...)
Forward(method) ==
  \E call \in ForwardInputs : \E net \in NetOutputs(call.tar) :
    LET dec == DecoderCall(call.tar, net)
        projected == Dense(FinalOf(method), dec.x)
    IN /\ fw_call' = [method |-> method, inp |-> call.inp, tar |-> call.tar]
       /\ fw_dec' = dec
       /\ fw_generated' = projected
       /\ fw_logits' = IF copynet
                       THEN Mix(dec.p_gen, projected, dec.copy_logits)
                       ELSE projected
       /\ fw_reads' = {"encoder", DecoderOf(method), FinalOf(method)}

TransformerBspan ==
  /\ fw_call = <<>>
  /\ Forward("bspan")
  /\ UNCHANGED <<copynet, params>>
  /\ UNCHANGED <<reader, otherVars, evalVars, arVars, trainVars>>

TransformerResponse ==
  /\ fw_call = <<>>
  /\ Forward("response")
  /\ UNCHANGED <<copynet, params>>
  /\ UNCHANGED <<reader, otherVars, evalVars, arVars, trainVars>>

\* -------------------------------------------------------------- the masks
\* create_padding_mask(seq): 1 where the id is 0 (the two broadcast axes of
\* the (batch, 1, 1, seq_len) result are left out)
create_padding_mask(seq) ==
  [b \in DOMAIN seq |-> [k \in DOMAIN seq[b] |-> IF seq[b][k] = 0 THEN 1 ELSE 0]]

\* tf.linalg.band_part(tf.ones((size, size)), -1, 0): the lower triangle,
\* diagonal included
BandPartLower(size) ==
  [q \in 1..size |-> [k \in 1..size |-> IF k <= q THEN 1 ELSE 0]]

\* mutant of create_look_ahead_mask: the diagonal is masked too
create_look_ahead_maskWithDiagonal(size) ==
  [q \in 1..size |-> [k \in 1..size |-> IF k >= q THEN 1 ELSE 0]]

\* create_look_ahead_mask(size) = 1 - band_part(ones, -1, 0)
create_look_ahead_mask(size) ==
  [q \in 1..size |-> [k \in 1..size |-> 1 - BandPartLower(size)[q][k]]]

\* create_masks(inp, tar); combined_mask is the maximum of the target padding
\* mask, broadcast over the queries, and the look-ahead mask, broadcast over
\* the batch
create_masks(inp, tar) ==
  LET size == IF Len(tar) = 0 THEN 0 ELSE Len(tar[1])
      look_ahead_mask == create_look_ahead_mask(size)
      dec_target_padding_mask == create_padding_mask(tar)
  IN [enc_padding_mask |-> create_padding_mask(inp),
      combined_mask |->
        [b \in DOMAIN tar |-> [q \in 1..size |-> [k \in 1..size |->
           Max(dec_target_padding_mask[b][k], look_ahead_mask[q][k])]]],
      dec_padding_mask |-> create_padding_mask(inp)]

\* the batches of id sequences the functions are called on: rectangular,
\* 0 the padding id
BatchSizes == {1, 2}
PaddedBatches(ids) ==
  UNION { [1..B -> [1..T -> ids]] : B \in BatchSizes, T \in 0..MaxSeq }

CreateMasks ==
  /\ fn_call = <<>>
  /\ \E tar \in PaddedBatches({0, 4}) :
       \E inp \in { [b \in DOMAIN tar |-> <<VocabSize, 4>>],
                    [b \in DOMAIN tar |-> <<VocabSize, 0>>] } :
         /\ fn_call' = [fn |-> "create_masks", inp |-> inp, tar |-> tar]
         /\ fn_result' = create_masks(inp, tar)
  /\ UNCHANGED <<reader, evalVars, arVars, trainVars, fwVars, config, optVars, modelVars>>

\* ---------------------------------------------------------------- the loss
\* a / b in floating point: 0 / 0 is not a number, x / 0 is infinite
NaN == [nan |-> TRUE]
Inf == [inf |-> TRUE]
Divide(a, b) ==
  IF b # 0 THEN Rat(a, b) ELSE IF a = 0 THEN NaN ELSE Inf

\* tf.reduce_sum over every axis of a (batch, time) tensor
ReduceSum(x) == ISum([b \in DOMAIN x |-> ISum(x[b])])

\* the per-position losses loss_object can return (reduction='none')
LossValues == {1, 2}

\* mutant of loss_function: the mean over every position
loss_functionMeanOverAll(real, loss_object_out) ==
  LET mask == [b \in DOMAIN real |-> [t \in DOMAIN real[b] |->
                 IF real[b][t] # 0 THEN 1 ELSE 0]]
      loss_ == [b \in DOMAIN real |-> [t \in DOMAIN real[b] |->
                 loss_object_out[b][t] * mask[b][t]]]
      ones == [b \in DOMAIN real |-> [t \in DOMAIN real[b] |-> 1]]
  IN Divide(ReduceSum(loss_), ReduceSum(ones))

\* loss_function(real, pred), on loss_object_out = loss_object(real, pred)
loss_function(real, loss_object_out) ==
  LET mask == [b \in DOMAIN real |-> [t \in DOMAIN real[b] |->
                 IF real[b][t] # 0 THEN 1 ELSE 0]]
      loss_ == [b \in DOMAIN real |-> [t \in DOMAIN real[b] |->
                 loss_object_out[b][t] * mask[b][t]]]
  IN Divide(ReduceSum(loss_), ReduceSum(mask))

LossFunction ==
  /\ fn_call = <<>>
  /\ \E real \in PaddedBatches({0, 4}) :
       \E out \in [DOMAIN real -> [1..(IF Len(real) = 0 THEN 0 ELSE Len(real[1])) -> LossValues]] :
         /\ fn_call' = [fn |-> "loss_function", real |-> real, loss_object_out |-> out]
         /\ fn_result' = loss_function(real, out)
  /\ UNCHANGED <<reader, evalVars, arVars, trainVars, fwVars, config, optVars, modelVars>>

\* ---------------------------------------------------------- the embeddings
\* reader.vocab.decode: the token of each id, the inverse of Encode
Words == <<"<pad>", "EOS_Z1", "EOS_Z2", "EOS_M", "food", "cheap", "north", "south">>
Decode(id) == Words[id + 1]

\* embedding_size, scaled down
EmbeddingSize == 2

\* the lines a pretrained file can hold, each split into its word and its
\* coefficients: a vocabulary token, the token of the start marker's id and
\* a token no id decodes to
FileVectors == { [i \in 1..EmbeddingSize |-> i], [i \in 1..EmbeddingSize |-> 3 * i - 4] }
FileLines ==
  { [word |-> w, coeffs |-> c] :
      w \in {Decode(VocabSize - 1), Decode(VocabSize), "zzz"}, c \in FileVectors }
EmbeddingFiles == UNION { [1..n -> FileLines] : n \in 0..MaxLines }

\* {reader.vocab.decode(id): id for id in range(cfg.vocab_size)}: a later id
\* replaces an earlier one under the same token
vocab_to_index ==
  [w \in {Decode(id) : id \in 0..(VocabSize - 1)} |->
     CHOOSE id \in 0..(VocabSize - 1) :
       /\ Decode(id) = w
       /\ \A id2 \in 0..(VocabSize - 1) : Decode(id2) = w => id2 <= id]

\* mutant of LoadLine: the row after the token's id is written
LoadLineShifted(embedding_matrix, line) ==
  IF line.word \in DOMAIN vocab_to_index
  THEN [embedding_matrix EXCEPT ![vocab_to_index[line.word] + 1] = line.coeffs]
  ELSE embedding_matrix

\* one iteration of `for line in infile`
LoadLine(embedding_matrix, line) ==
  IF line.word \in DOMAIN vocab_to_index
  THEN [embedding_matrix EXCEPT ![vocab_to_index[line.word]] = line.coeffs]
  ELSE embedding_matrix

RECURSIVE LoadLines(_, _)
LoadLines(embedding_matrix, lines) ==
  IF lines = <<>> THEN embedding_matrix
  ELSE LoadLines(LoadLine(embedding_matrix, Head(lines)), Tail(lines))

\* read_embeddings(reader, embeddings_file, embedding_size) on the lines of
\* the file
read_embeddings(infile) ==
  LoadLines([id \in 0..VocabSize |-> [i \in 1..EmbeddingSize |-> 0]], infile)

ReadEmbeddings ==
  /\ fn_call = <<>>
  /\ \E infile \in EmbeddingFiles :
       /\ fn_call' = [fn |-> "read_embeddings", infile |-> infile]
       /\ fn_result' = read_embeddings(infile)
  /\ UNCHANGED <<reader, evalVars, arVars, trainVars, fwVars, config, optVars, modelVars>>

\* ------------------------------------------------------------ the optimizer
\* most training steps a run of the two training steps makes
MaxSteps == 3
\* CustomSchedule's warmup_steps (4000 by default), scaled down
WarmupSteps == 2

\* SeqModel.__init__'s defaults for num_layers, d_model and num_heads, and
\* the vocab_size __main__ passes
DefaultConfig ==
  [num_layers |-> 3, d_model |-> 50, num_heads |-> 5, vocab_size |-> VocabSize]

\* CustomSchedule.__call__(step), as the square of the rate it returns (the
\* rate itself is irrational): rsqrt(d_model) * min(rsqrt(step), step *
\* warmup_steps ** -1.5).  rsqrt(0) is infinite, and min(inf, 0) is 0.
CustomSchedule(d_model, step) ==
  LET arg1 == Divide(1, step)
      arg2 == Rat(step * step, WarmupSteps * WarmupSteps * WarmupSteps)
      least == IF arg1 = Inf \/ RLeq(arg2, arg1) THEN arg2 ELSE arg1
  IN RMul(Rat(1, d_model), least)

\* the groups of variables of the Transformer and the length each stands for
VarShape == [encoder |-> 1, bspan_decoder |-> 2, response_decoder |-> 2,
             response_final |-> 1, bspan_final |-> 1]

\* the variables the forward pass of each training step runs through; a Keras
\* layer creates its variables when it is first called
UsedBy(step_name) ==
  {"encoder", DecoderOf(step_name), FinalOf(step_name)}

\* the entries of the gradient of a variable the loss depends on
GradValues == {0, 1}
Fill(n, value) == [i \in 1..n |-> value]

\* tape.gradient(loss, trainable_variables): None for a variable the loss does
\* not depend on
TapeGradients(trainable_variables, used, grad) ==
  [v \in trainable_variables |->
     IF v \in used THEN Fill(VarShape[v], grad[v]) ELSE None]

\* mutant of SubstituteZeros: the gradients are passed on as the tape gave them
SubstituteNothing(gradients) == gradients

\* [grad if grad is not None else tf.zeros_like(var) for grad, var in zip(...)]
SubstituteZeros(gradients) ==
  [v \in DOMAIN gradients |->
     IF gradients[v] # None THEN gradients[v] ELSE Fill(VarShape[v], 0)]

Sign(x) == IF x > 0 THEN 1 ELSE IF x < 0 THEN -1 ELSE 0

\* Adam on one variable: m is the first moment, kept as m * 10^t so that
\* beta_1 = 0.9 stays integral; the variable moves by lr_t * m_hat /
\* (sqrt(v_hat) + epsilon), of which theta keeps the direction, one unit per
\* update that moves it.  A variable with no gradient in the list is skipped.
AdamUpdate(var, grad, lr) ==
  IF grad = None THEN var
  ELSE LET m == [i \in DOMAIN var.m |-> 9 * var.m[i] + grad[i]]
       IN [m |-> m,
           theta |-> [i \in DOMAIN var.theta |->
                        IF lr.n > 0 THEN var.theta[i] - Sign(m[i]) ELSE var.theta[i]]]

\* optimizer.apply_gradients(zip(gradients, trainable_variables)): the rate is
\* the schedule at optimizer.iterations, which counts the updates applied and
\* is incremented after the update
ApplyGradients(built, gradients) ==
  LET lr == CustomSchedule(config.d_model, iterations)
  IN /\ weights' = [v \in DOMAIN built |-> AdamUpdate(built[v], gradients[v], lr)]
     /\ iterations' = iterations + 1

\* train_step_bspan / train_step_response(inp, tar): the forward pass under
\* the tape, the gradients, the substitution and the update
TrainStep(step_name) ==
  /\ iterations < MaxSteps
  /\ \E grad \in [UsedBy(step_name) -> GradValues] :
       LET built == [v \in DOMAIN weights \cup UsedBy(step_name) |->
                       IF v \in DOMAIN weights THEN weights[v]
                       ELSE [m |-> Fill(VarShape[v], 0), theta |-> Fill(VarShape[v], 0)]]
           tape == TapeGradients(DOMAIN built, UsedBy(step_name), grad)
           gradients == SubstituteZeros(tape)
       IN /\ ApplyGradients(built, gradients)
          /\ opt_step' = [name |-> step_name,
                          tape |-> tape,
                          gradients |-> gradients,
                          lr_step |-> iterations,
                          failed |-> \A v \in DOMAIN gradients : gradients[v] = None]
  /\ UNCHANGED <<tr_pc, epochs, epoch, iter_num, turn_num, tr_previous_bspan,
                 tr_previous_response, target_bspan, target_response,
                 bspan_decoder_input, response_decoder_input, tlog>>
  /\ UNCHANGED <<reader, evalVars, arVars, fwVars, fnVars, config, modelVars>>

train_step_bspan == TrainStep("bspan")

train_step_response == TrainStep("response")

\* ----------------------------------------------------------- construction
\* most layers a model is constructed with (3 by default)
MaxLayers == 2
\* most forward calls made on one model
MaxCalls == 2

\* the arguments a model is constructed with
Configs ==
  [num_layers : 0..MaxLayers, d_model : {2, 3}, num_heads : {1, 2},
   vocab_size : {0, 1, VocabSize}]

\* MultiHeadAttention.__init__: assert d_model % self.num_heads == 0
MultiHeadAttentionInit(d_model, num_heads) == d_model % num_heads = 0

\* EncoderLayer.__init__ builds one MultiHeadAttention, DecoderLayer.__init__ two
EncoderLayerInit(cfg) == MultiHeadAttentionInit(cfg.d_model, cfg.num_heads)
DecoderLayerInit(cfg) ==
  /\ MultiHeadAttentionInit(cfg.d_model, cfg.num_heads)
  /\ MultiHeadAttentionInit(cfg.d_model, cfg.num_heads)

\* [EncoderLayer(...) for _ in range(num_layers)], and the same in Decoder
EncoderInit(cfg) == \A layer \in 1..cfg.num_layers : EncoderLayerInit(cfg)
DecoderInit(cfg) == \A layer \in 1..cfg.num_layers : DecoderLayerInit(cfg)

\* Transformer.__init__: the encoder, then the two decoders
TransformerInit(cfg) ==
  /\ EncoderInit(cfg)
  /\ DecoderInit(cfg)
  /\ DecoderInit(cfg)

\* SeqModel.__init__: a failed assertion leaves no model
SeqModelInit ==
  /\ model_pc = "new"
  /\ model_pc' = IF TransformerInit(config) THEN "constructed" ELSE "AssertionError"
  /\ UNCHANGED <<n_calls, shape_call>>
  /\ UNCHANGED <<reader, evalVars, arVars, trainVars, fwVars, fnVars, config, optVars>>

\* 'decoder_layer{}_block1'.format(i + 1), 'decoder_layer{}_block2'.format(i + 1)
Key(layer, block) == [decoder_layer |-> layer, block |-> block]

\* mutant of DecoderAttentionWeights: the keys are numbered from 0
DecoderAttentionWeightsFromZero(cfg, B, T, S) ==
  LET keys == {Key(i, block) : i \in 0..(cfg.num_layers - 1), block \in {1, 2}}
  IN [key \in keys |->
        IF key.block = 1 THEN <<B, cfg.num_heads, T, T>>
        ELSE <<B, cfg.num_heads, T, S>>]

\* the attention_weights Decoder.call fills in its loop over the layers, each
\* entry as the shape of the block's weights: block1 is the self-attention of
\* the target, block2 the attention of the target over the encoder output
DecoderAttentionWeights(cfg, B, T, S) ==
  LET keys == {Key(i + 1, block) : i \in 0..(cfg.num_layers - 1), block \in {1, 2}}
  IN [key \in keys |->
        IF key.block = 1 THEN <<B, cfg.num_heads, T, T>>
        ELSE <<B, cfg.num_heads, T, S>>]

\* Decoder.call with the copy mechanism reads attn, which only an iteration
\* of the loop over the layers binds
DecoderCallFails(cfg) == copynet /\ cfg.num_layers = 0

\* x += self.pos_encoding[:, :seq_len, :] on x of shape (batch, seq_len,
\* d_model), pos_encoding of shape (1, maximum_position_encoding, d_model):
\* the slice stops at the end of pos_encoding, and the addition broadcasts an
\* axis of length 1 and fails on any other difference in length.  rows is the
\* row of pos_encoding each position of x is given.
AddPositional(seq_len, maximum_position_encoding) ==
  LET sliced == Min(seq_len, maximum_position_encoding)
  IN IF sliced = seq_len
     THEN [raised |-> FALSE, rows |-> [q \in 1..seq_len |-> q]]
     ELSE IF sliced = 1
     THEN [raised |-> FALSE, rows |-> [q \in 1..seq_len |-> 1]]
     ELSE [raised |-> TRUE, rows |-> <<>>]

\* pe_input = input_vocab_size, pe_target = target_vocab_size, both
\* vocab_size + 1
PeInput(cfg) == cfg.vocab_size + 1
PeTarget(cfg) == cfg.vocab_size + 1

\* Transformer.bspan / Transformer.response on inp of shape (B, S) and tar of
\* shape (B, T), followed through the shapes of its tensors: the decoder makes
\* a new attention_weights map, the n-th call the n-th map, and the output
\* projection, a Dense(target_vocab_size), gives the last axis
ForwardShapes(method) ==
  /\ model_pc = "constructed"
  /\ n_calls < MaxCalls
  /\ n_calls' = n_calls + 1
  /\ \E B \in BatchSizes, T \in 1..MaxSeq, S \in 1..MaxSeq :
       LET enc == AddPositional(S, PeInput(config))
           dec == AddPositional(T, PeTarget(config))
       IN shape_call' =
            IF enc.raised \/ dec.raised
            THEN [method |-> method, inp |-> <<B, S>>, tar |-> <<B, T>>,
                  raised |-> "InvalidArgumentError"]
            ELSE IF DecoderCallFails(config)
            THEN [method |-> method, inp |-> <<B, S>>, tar |-> <<B, T>>,
                  raised |-> "UnboundLocalError"]
            ELSE [method |-> method, inp |-> <<B, S>>, tar |-> <<B, T>>,
                  raised |-> "",
                  enc_rows |-> enc.rows,
                  dec_rows |-> dec.rows,
                  attention_weights |->
                    [id |-> n_calls + 1,
                     entries |-> DecoderAttentionWeights(config, B, T, S)],
                  logits |-> <<B, T, config.vocab_size + 1>>]
  /\ UNCHANGED model_pc
  /\ UNCHANGED <<reader, evalVars, arVars, trainVars, fwVars, fnVars, config, optVars>>

BspanShapes == ForwardShapes("bspan")

ResponseShapes == ForwardShapes("response")

\* what the drivers and the forward pass leave alone
InitOther ==
  /\ fn_call = <<>>
  /\ fn_result = <<>>
  /\ weights = <<>>
  /\ opt_step = <<>>

\* a model constructed with the default arguments, not called at this level
InitConstructed ==
  /\ config = DefaultConfig
  /\ model_pc = "constructed"
  /\ n_calls = 0
  /\ shape_call = <<>>

\* ---------------------------------------------------------- specification
InitAR ==
  /\ ar_pc = "idle"
  /\ ar_decoder = "none"
  /\ input_sequence = None
  /\ output = None
  /\ end_token_id = 0
  /\ ar_i = 0
  /\ ar_result = None
  /\ ar_calls = 0
  /\ ar_preds = <<>>
  /\ ar_stop = "none"

InitEval ==
  /\ ev_pc = "idle"
  /\ max_sent = 1
  /\ dialogue_set = <<>>
  /\ ev_d = 1
  /\ ev_t = 1
  /\ previous_bspan = None
  /\ previous_response = None
  /\ n_predictions = 0
  /\ ev_args = NoArgs
  /\ predicted_bspan = None
  /\ predicted_response = None
  /\ elog = <<>>

InitTrain ==
  /\ tr_pc = "idle"
  /\ epochs = 0
  /\ epoch = 0
  /\ iter_num = 1
  /\ turn_num = 1
  /\ tr_previous_bspan = None
  /\ tr_previous_response = None
  /\ target_bspan = None
  /\ target_response = None
  /\ bspan_decoder_input = None
  /\ response_decoder_input = None
  /\ iterations = 0
  /\ tlog = <<>>

\* the forward pass is not looked into by the drivers: the decoders are oracles
InitNoForward ==
  /\ copynet = TRUE
  /\ params = <<>>
  /\ fw_call = <<>>
  /\ fw_dec = <<>>
  /\ fw_generated = <<>>
  /\ fw_logits = <<>>
  /\ fw_reads = {}

\* evaluation(mode, max_sent) called on a constructed model
Init ==
  /\ reader \in ReaderPool
  /\ InitEval
  /\ InitAR
  /\ InitOther
  /\ InitConstructed
  /\ InitTrain
  /\ InitNoForward

Next ==
  \/ EvaluationStart
  \/ EvaluationDialogue
  \/ EvaluationTurn
  \/ AutoRegressStep
  \/ AutoRegressExhausted
  \/ EvaluateResponse
  \/ EvaluateReturn
  \/ EvaluationTurnsDone
  \/ EvaluationDone

Spec == Init /\ [][Next]_vars

\* train_model(epochs) called on a constructed model, max_sent left at its
\* default of 1 as __main__ does
InitTrainModel ==
  /\ reader \in ReaderPool
  /\ ev_pc = "idle"
  /\ max_sent = 1
  /\ dialogue_set = <<>>
  /\ ev_d = 1
  /\ ev_t = 1
  /\ previous_bspan = None
  /\ previous_response = None
  /\ n_predictions = 0
  /\ ev_args = NoArgs
  /\ predicted_bspan = None
  /\ predicted_response = None
  /\ elog = <<>>
  /\ InitOther
  /\ InitConstructed
  /\ InitAR
  /\ InitNoForward
  /\ tr_pc = "epoch"
  /\ epochs \in 1..MaxEpochs
  /\ epoch = 0
  /\ iter_num = 1
  /\ turn_num = 1
  /\ tr_previous_bspan = None
  /\ tr_previous_response = None
  /\ target_bspan = None
  /\ target_response = None
  /\ bspan_decoder_input = None
  /\ response_decoder_input = None
  /\ iterations = 0
  /\ tlog = <<>>

NextTrain ==
  \/ TrainEpoch
  \/ TrainDialBatch
  \/ TrainTurn
  \/ TrainStepBspanForward
  \/ TrainStepBspanApply
  \/ TrainStepResponseForward
  \/ TrainStepResponseApply
  \/ TrainTurnsDone
  \/ TrainEvaluation
  \/ EvaluationDialogue
  \/ EvaluationTurn
  \/ AutoRegressStep
  \/ AutoRegressExhausted
  \/ EvaluateResponse
  \/ EvaluateReturn
  \/ EvaluationTurnsDone
  \/ EvaluationDone
  \/ TrainEpochEnd
  \/ TrainDone

SpecTrain == InitTrainModel /\ [][NextTrain]_vars

\* Transformer.bspan and Transformer.response called on a constructed
\* Transformer, with or without the copy mechanism
InitForward ==
  /\ reader = [train |-> <<>>, dev |-> <<>>, test |-> <<>>]
  /\ InitEval
  /\ InitAR
  /\ InitTrain
  /\ copynet \in BOOLEAN
  /\ params \in [{"bspan_final", "response_final"} -> ProjectionPool]
  /\ fw_call = <<>>
  /\ fw_dec = <<>>
  /\ fw_generated = <<>>
  /\ InitOther
  /\ InitConstructed
  /\ fw_logits = <<>>
  /\ fw_reads = {}

NextForward ==
  \/ TransformerBspan
  \/ TransformerResponse

SpecForward == InitForward /\ [][NextForward]_vars

\* one call of create_masks, loss_function or read_embeddings
InitFunctions ==
  /\ reader = [train |-> <<>>, dev |-> <<>>, test |-> <<>>]
  /\ InitEval
  /\ InitAR
  /\ InitTrain
  /\ InitNoForward
  /\ InitOther
  /\ InitConstructed

NextFunctions ==
  \/ CreateMasks
  \/ LossFunction
  \/ ReadEmbeddings

SpecFunctions == InitFunctions /\ [][NextFunctions]_vars

\* training steps on a constructed model, in any order
InitOptimizer == InitFunctions

NextOptimizer ==
  \/ train_step_bspan
  \/ train_step_response

SpecOptimizer == InitOptimizer /\ [][NextOptimizer]_vars

\* SeqModel(...) with or without the copy mechanism, then forward calls on
\* the model it returned
InitModel ==
  /\ reader = [train |-> <<>>, dev |-> <<>>, test |-> <<>>]
  /\ InitEval
  /\ InitAR
  /\ InitTrain
  /\ copynet \in BOOLEAN
  /\ params = <<>>
  /\ fw_call = <<>>
  /\ fw_dec = <<>>
  /\ fw_generated = <<>>
  /\ fw_logits = <<>>
  /\ fw_reads = {}
  /\ InitOther
  /\ config \in Configs
  /\ model_pc = "new"
  /\ n_calls = 0
  /\ shape_call = <<>>

NextModel ==
  \/ SeqModelInit
  \/ BspanShapes
  \/ ResponseShapes

SpecModel == InitModel /\ [][NextModel]_vars

\* auto_regress called on a constructed model
NextAutoRegress ==
  \/ AutoRegress
  \/ AutoRegressStep
  \/ AutoRegressExhausted

SpecAutoRegress == InitFunctions /\ [][NextAutoRegress]_vars

\* ------------------------------------------------------------------ claims
Last(seq) == seq[Len(seq)]

\* the first position of id in seq, 0 when it does not occur
FirstIndexOf(seq, id) ==
  IF \E k \in DOMAIN seq : seq[k] = id
  THEN CHOOSE k \in DOMAIN seq : seq[k] = id /\ \A j \in 1..(k - 1) : seq[j] # id
  ELSE 0

\* C1: auto_regress never makes more than MAX_LENGTH decoder invocations, a
\* running loop can always take its next step, every step of it either returns
\* or advances i by one, and what is returned has at most MAX_LENGTH + 1 ids.
C1_Terminates ==
  /\ [](/\ ar_calls <= MAX_LENGTH
        /\ (ar_pc = "loop" =>
              /\ ar_i = ar_calls
              /\ ar_i <= MAX_LENGTH
              /\ ENABLED (AutoRegressStep \/ AutoRegressExhausted))
        /\ (ar_pc = "returned" =>
              /\ Len(ar_result) <= MAX_LENGTH + 1
              /\ ar_result[1] = VocabSize))
  /\ [][ar_pc = "loop" =>
          \/ ar_pc' = "returned"
          \/ ar_pc' = "loop" /\ ar_i' = ar_i + 1]_vars

\* C1 witness: a call that never predicted the end marker has returned after
\* MAX_LENGTH invocations.
C1_Witness ==
  /\ ar_pc = "returned"
  /\ ar_stop = "maxlen"
  /\ ar_calls = MAX_LENGTH
  /\ Len(ar_result) = MAX_LENGTH + 1
  /\ \A k \in DOMAIN ar_preds : ar_preds[k] # end_token_id

\* C2: the call stops at the first invocation whose argmax is the end id and
\* returns the start marker followed by the ids predicted before it, in order;
\* until the end id is predicted the output is the start marker followed by all
\* predicted ids.  An end id on the first step gives a length-1 result after
\* one invocation.
C2_StopsAtFirstEnd ==
  ar_pc \in {"loop", "returned"} =>
    LET k == FirstIndexOf(ar_preds, end_token_id)
    IN IF k = 0
       THEN /\ output = <<VocabSize>> \o ar_preds
            /\ (ar_pc = "returned" => ar_stop = "maxlen" /\ ar_result = output)
       ELSE /\ ar_pc = "returned"
            /\ ar_stop = "eos"
            /\ ar_calls = k
            /\ Len(ar_preds) = k
            /\ ar_result = <<VocabSize>> \o SubSeq(ar_preds, 1, k - 1)
            /\ (k = 1 => Len(ar_result) = 1 /\ ar_calls = 1)

\* C2 witness: the end id was predicted after at least one other id.
C2_Witness ==
  /\ ar_pc = "returned"
  /\ ar_stop = "eos"
  /\ Len(ar_preds) >= 2
  /\ Last(ar_preds) = end_token_id

\* C3 as stated: the final id of the returned sequence is the end marker
\* exactly when decoding stopped on the end marker.
C3_FinalTokenTellsOutcome ==
  ar_pc = "returned" => ((Last(ar_result) = end_token_id) <=> (ar_stop = "eos"))

\* C3 as amended: a run of MAX_LENGTH steps without the end marker returns
\* normally; the returned sequence never holds the end marker, whichever way
\* decoding stopped, and it has MAX_LENGTH + 1 ids exactly when decoding was
\* truncated.
C3_LengthTellsOutcome ==
  /\ (ar_pc = "loop" /\ ar_calls = MAX_LENGTH) => ENABLED AutoRegressExhausted
  /\ ar_pc = "returned" =>
       /\ ar_stop \in {"eos", "maxlen"}
       /\ \A k \in DOMAIN ar_result : ar_result[k] # end_token_id
       /\ (ar_stop = "maxlen") <=> (Len(ar_result) = MAX_LENGTH + 1)
       /\ (ar_stop = "maxlen") <=> (\A k \in DOMAIN ar_preds : ar_preds[k] # end_token_id)

\* C3 witness: a truncated decode has returned.
C3_Witness ==
  /\ ar_pc = "returned"
  /\ ar_stop = "maxlen"
  /\ Last(ar_result) # end_token_id

\* a value a turn hands on: its ground truth, or a sequence a decode returned
\* (every decoded sequence starts with the start marker)
HandedOn(context, truth) ==
  \/ context = truth
  \/ Len(context) >= 1 /\ context[1] = VocabSize

\* C4: evaluate is called for the first turn of a dialogue with the
\* placeholders, and for every later turn with the belief span and the response
\* of the turn before it.
C4_ContextCarried ==
  ev_pc \in {"evaluate_bspan", "evaluate_response"} =>
    IF ev_t = 1
    THEN /\ ev_args.previous_bspan = <<Encode("EOS_Z1"), Encode("EOS_Z2")>>
         /\ ev_args.previous_response = <<Encode("EOS_M")>>
    ELSE /\ HandedOn(ev_args.previous_bspan, dialogue_set[ev_d][ev_t - 1].bspan)
         /\ HandedOn(ev_args.previous_response, dialogue_set[ev_d][ev_t - 1].response)

\* row is expected, right-padded with 0
PaddedRow(row, expected) ==
  /\ Len(row) >= Len(expected)
  /\ \A j \in DOMAIN row : row[j] = (IF j <= Len(expected) THEN expected[j] ELSE 0)

\* C5: while the two steps of a training turn run, both decoder inputs are the
\* start marker followed by the context (the placeholders on turn 0 of every
\* dialogue batch, the ground truth of the turn before otherwise) and the user
\* utterance, the response input continuing with the ground-truth belief span
\* and the degree of this turn.
C5_TeacherForcedInputs ==
  tr_pc \in {"bspan_forward", "bspan_apply", "response_forward", "response_apply"} =>
    LET dial_batch == reader.train[iter_num]
        turn_batch == dial_batch[turn_num]
        ctx_bspan(i) == IF turn_num = 1
                        THEN <<Encode("EOS_Z1"), Encode("EOS_Z2")>>
                        ELSE dial_batch[turn_num - 1].bspan[i]
        ctx_response(i) == IF turn_num = 1
                           THEN <<Encode("EOS_M")>>
                           ELSE dial_batch[turn_num - 1].response[i]
    IN /\ Len(bspan_decoder_input) = Len(turn_batch.user)
       /\ Len(response_decoder_input) = Len(turn_batch.user)
       /\ \A i \in DOMAIN turn_batch.user :
            /\ PaddedRow(bspan_decoder_input[i],
                 <<VocabSize>> \o ctx_bspan(i) \o ctx_response(i) \o turn_batch.user[i])
            /\ PaddedRow(response_decoder_input[i],
                 <<VocabSize>> \o ctx_bspan(i) \o ctx_response(i) \o turn_batch.user[i]
                   \o turn_batch.bspan[i] \o turn_batch.degree[i])

\* C5 witness: the first turn of a second dialogue batch, after a first
\* batch whose last turn left a context behind.
C5_Witness ==
  /\ tr_pc = "response_forward"
  /\ iter_num = 2
  /\ turn_num = 1
  /\ Len(reader.train[1]) >= 2

TurnEvents(e, b, t) ==
  << <<"bspan", "forward", e, b, t>>, <<"bspan", "apply", e, b, t>>,
     <<"response", "forward", e, b, t>>, <<"response", "apply", e, b, t>> >>

RECURSIVE BatchEvents(_, _, _, _)
BatchEvents(e, b, t, n) ==
  IF t > n THEN <<>> ELSE TurnEvents(e, b, t) \o BatchEvents(e, b, t + 1, n)

RECURSIVE EpochEvents(_, _, _)
EpochEvents(train, e, b) ==
  IF b > Len(train)
  THEN << <<"evaluation", "call", e, 0, 0>>, <<"evaluation", "return", e, 0, 0>> >>
  ELSE BatchEvents(e, b, 1, Len(train[b])) \o EpochEvents(train, e, b + 1)

RECURSIVE RunEvents(_, _, _)
RunEvents(train, e, n) ==
  IF e >= n THEN <<>> ELSE EpochEvents(train, e, 1) \o RunEvents(train, e + 1, n)

IsPrefix(s, t) == Len(s) <= Len(t) /\ SubSeq(t, 1, Len(s)) = s

\* C6: what train_model has run is always a prefix of: per epoch, per dialogue
\* batch in order, per turn in order, the belief-span step's forward pass, its
\* optimizer update, the response step's forward pass, its optimizer update;
\* then one evaluation.  Decoding runs only inside that evaluation, and a
\* finished train_model has run all of it.
C6_StrictlySequential ==
  /\ IsPrefix(tlog, RunEvents(reader.train, 0, epochs))
  /\ (tr_pc = "done" => tlog = RunEvents(reader.train, 0, epochs))
  /\ (ev_pc # "idle" => tr_pc = "evaluation" /\ Last(tlog) = <<"evaluation", "call", epoch, 0, 0>>)
  /\ (tr_pc = "response_forward" => Last(tlog) = <<"bspan", "apply", epoch, iter_num, turn_num>>)
  /\ (tr_pc = "bspan_forward" /\ turn_num > 1 =>
        Last(tlog) = <<"response", "apply", epoch, iter_num, turn_num - 1>>)

\* C6 witness: a train_model of two epochs has returned.
C6_Witness ==
  /\ tr_pc = "done"
  /\ epochs >= 2
  /\ Len(tlog) > 8

\* C7: a response decode runs only after the belief-span decode of the same
\* evaluate call has returned, and its input is the start marker, the context,
\* the user utterance, the sequence that belief-span decode returned and the
\* turn's degree vector.
C7_ResponseAfterBspan ==
  /\ ev_pc = "evaluate_bspan" => elog = << <<"call", "bspan">> >> /\ ar_decoder = "bspan"
  /\ ev_pc = "evaluate_response" =>
       /\ Len(elog) = 3
       /\ elog[1] = <<"call", "bspan">>
       /\ elog[2][1] = "return" /\ elog[2][2] = "bspan"
       /\ elog[3] = <<"call", "response">>
       /\ predicted_bspan = elog[2][3]
       /\ ar_decoder = "response"
       /\ input_sequence =
            << <<VocabSize>> \o ev_args.previous_bspan \o ev_args.previous_response
                 \o dialogue_set[ev_d][ev_t].user \o elog[2][3]
                 \o dialogue_set[ev_d][ev_t].degree >>

\* C7 witness: a response decode runs on a belief span of predicted ids.
C7_Witness ==
  /\ ev_pc = "evaluate_response"
  /\ ar_pc = "loop"
  /\ Len(predicted_bspan) >= 2

\* C8: Transformer.bspan reads the belief-span projection and not the response
\* projection, Transformer.response the response projection and not the
\* belief-span one, and each one's projected logits are those of its own
\* projection.
C8_OwnProjection ==
  fw_call # <<>> =>
    LET own == IF fw_call.method = "bspan" THEN "bspan_final" ELSE "response_final"
        other == IF fw_call.method = "bspan" THEN "response_final" ELSE "bspan_final"
    IN /\ own \in fw_reads
       /\ other \notin fw_reads
       /\ fw_reads \cap {"bspan_decoder", "response_decoder"} =
            {IF fw_call.method = "bspan" THEN "bspan_decoder" ELSE "response_decoder"}
       /\ fw_generated = Dense(own, fw_dec.x)

\* C9: with the copy mechanism, the copy distribution has one probability per
\* position of the encoder input, and copy_logits[v] is the sum of the
\* probabilities of the encoder-input positions holding id v.
C9_CopyOverSource ==
  (fw_call # <<>> /\ copynet) =>
    \A b \in DOMAIN fw_call.inp :
      /\ Len(fw_dec.copy_probs[b]) = Len(fw_call.inp[b])
      /\ \A t \in DOMAIN fw_dec.copy_logits[b] : \A v \in TargetIds :
           REq(fw_dec.copy_logits[b][t][v],
               RSum([s \in DOMAIN fw_call.inp[b] |->
                       IF fw_call.inp[b][s] = v THEN fw_dec.copy_probs[b][s] ELSE Zero]))

\* C10: with the copy mechanism, every returned logit is
\* p_gen * generated + (1 - p_gen) * copy_logits with 0 <= p_gen <= 1, p_gen
\* being the value of that row and time step, and copy_logits the same at every
\* time step of the row.
C10_CopyMixture ==
  (fw_call # <<>> /\ copynet) =>
    \A b \in DOMAIN fw_logits : \A t \in DOMAIN fw_logits[b] : \A v \in TargetIds :
      LET p == fw_dec.p_gen[b][t]
          g == fw_generated[b][t][v]
          c == fw_dec.copy_logits[b][t][v]
          r == fw_logits[b][t][v]
      IN /\ 0 <= p.n /\ p.n <= p.d
         /\ r.n * (p.d * g.d * c.d) = r.d * (p.n * g.n * c.d + (p.d - p.n) * c.n * g.d)
         /\ \A t2 \in DOMAIN fw_logits[b] : fw_dec.copy_logits[b][t2][v] = c

\* C10 witness: a belief-span call over two time steps or more, one of them
\* mixing generation and copying.
C10_Witness ==
  /\ fw_call # <<>>
  /\ copynet
  /\ fw_call.method = "bspan"
  /\ Len(fw_call.tar[1]) >= 2
  /\ \E t \in DOMAIN fw_dec.p_gen[1] :
       0 < fw_dec.p_gen[1][t].n /\ fw_dec.p_gen[1][t].n < fw_dec.p_gen[1][t].d
  /\ \E v \in TargetIds : fw_dec.copy_logits[1][1][v].n > 0
\* C11: without the copy mechanism the decoder returns p_gen = 0 and all-zero
\* copy_logits, and the call returns the output projection's logits unchanged.
C11_PureGeneration ==
  (fw_call # <<>> /\ ~copynet) =>
    /\ \A b \in DOMAIN fw_dec.p_gen : \A t \in DOMAIN fw_dec.p_gen[b] :
         fw_dec.p_gen[b][t] = Zero
    /\ \A b \in DOMAIN fw_dec.copy_logits : \A t \in DOMAIN fw_dec.copy_logits[b] :
         \A v \in TargetIds : fw_dec.copy_logits[b][t][v] = Zero
    /\ fw_logits = fw_generated

\* C11 witness: a call without the copy mechanism whose projection yields a
\* logit other than 0, which a multiplication by p_gen = 0 would wipe out.
C11_Witness ==
  /\ fw_call # <<>>
  /\ ~copynet
  /\ \E b \in DOMAIN fw_logits : \E t \in DOMAIN fw_logits[b] : \E v \in TargetIds :
       fw_generated[b][t][v].n # 0

\* the (row, position) pairs of a batch of id sequences
Positions(batch) ==
  {<<b, t>> : b \in DOMAIN batch, t \in 1..(IF Len(batch) = 0 THEN 0 ELSE Len(batch[1]))}

RECURSIVE SumAt(_, _)
SumAt(x, positions) ==
  IF positions = {} THEN 0
  ELSE LET p == CHOOSE p \in positions : TRUE
       IN x[p[1]][p[2]] + SumAt(x, positions \ {p})

IsCall(fn) == fn_call # <<>> /\ fn_call.fn = fn

\* C12: the decoder self-attention mask of create_masks is 1 at (q, k) exactly
\* when k > q or the target holds the padding id 0 at k, and 0 elsewhere, for
\* every row of the target batch and all positions q, k.
C12_CombinedMask ==
  IsCall("create_masks") =>
    /\ DOMAIN fn_result.combined_mask = DOMAIN fn_call.tar
    /\ \A b \in DOMAIN fn_call.tar :
         /\ DOMAIN fn_result.combined_mask[b] = DOMAIN fn_call.tar[b]
         /\ \A q \in DOMAIN fn_call.tar[b] :
              /\ DOMAIN fn_result.combined_mask[b][q] = DOMAIN fn_call.tar[b]
              /\ \A k \in DOMAIN fn_call.tar[b] :
                   fn_result.combined_mask[b][q][k] =
                     (IF k > q \/ fn_call.tar[b][k] = 0 THEN 1 ELSE 0)

\* C12 witness: a target row with a padded position and a later unpadded one,
\* whose own diagonal entry is left unmasked.
C12_Witness ==
  /\ IsCall("create_masks")
  /\ \E b \in DOMAIN fn_call.tar : \E q, k \in DOMAIN fn_call.tar[b] :
       /\ k < q
       /\ fn_call.tar[b][k] = 0
       /\ fn_call.tar[b][q] # 0
       /\ fn_result.combined_mask[b][q][k] = 1
       /\ fn_result.combined_mask[b][q][q] = 0

\* C13: when the target has a non-padding position, loss_function returns the
\* sum of the per-position losses at the non-padding positions divided by the
\* number of those positions.
C13_MaskedMean ==
  IsCall("loss_function") =>
    LET nonpad == {p \in Positions(fn_call.real) : fn_call.real[p[1]][p[2]] # 0}
    IN nonpad # {} =>
         /\ DOMAIN fn_result = {"n", "d"}
         /\ REq(fn_result, Rat(SumAt(fn_call.loss_object_out, nonpad), Cardinality(nonpad)))

\* C13 witness: a target with padding and non-padding positions.
C13_Witness ==
  /\ IsCall("loss_function")
  /\ \E p, r \in Positions(fn_call.real) :
       fn_call.real[p[1]][p[2]] # 0 /\ fn_call.real[r[1]][r[2]] = 0

\* C14: on a target that is all padding, or has no position, loss_function
\* does not divide by zero and returns a number.
C14_ZeroDenominatorGuarded ==
  (/\ IsCall("loss_function")
   /\ \A p \in Positions(fn_call.real) : fn_call.real[p[1]][p[2]] = 0) =>
    /\ fn_result # NaN
    /\ fn_result # Inf

\* C19: the matrix of read_embeddings has the rows 0..vocab_size; the row of
\* a vocabulary id is the vector of the file's last line for the token the id
\* decodes to, and all zero when the file has no line for it; the row of the
\* start marker is all zero.
C19_EmbeddingRows ==
  IsCall("read_embeddings") =>
    LET infile == fn_call.infile
        zeros == [i \in 1..EmbeddingSize |-> 0]
        LinesOf(token) == {k \in DOMAIN infile : infile[k].word = token}
    IN /\ DOMAIN fn_result = 0..VocabSize
       /\ \A id \in 0..(VocabSize - 1) :
            IF LinesOf(Decode(id)) = {}
            THEN fn_result[id] = zeros
            ELSE fn_result[id] =
                   infile[CHOOSE k \in LinesOf(Decode(id)) :
                            \A j \in LinesOf(Decode(id)) : j <= k].coeffs
       /\ fn_result[VocabSize] = zeros

\* C19 witness: a file with a line for a vocabulary token, which fills its
\* row, and a line for the token of the start marker's id.
C19_Witness ==
  /\ IsCall("read_embeddings")
  /\ \E k, j \in DOMAIN fn_call.infile :
       /\ fn_call.infile[k].word = Decode(VocabSize - 1)
       /\ fn_call.infile[j].word = Decode(VocabSize)
  /\ \E i \in 1..EmbeddingSize : fn_result[VocabSize - 1][i] # 0

\* C15: the step CustomSchedule is evaluated at for an optimizer update is at
\* least 1, at the first update and at every later one.
C15_StepAtLeastOne ==
  opt_step # <<>> => opt_step.lr_step >= 1

\* C16: the gradient list a training step passes to the optimizer has one
\* entry per trainable variable, none of them missing; a variable the backward
\* pass gave no gradient for has an all-zero gradient of its shape, and the
\* update does not fail.
C16_NoMissingGradient ==
  opt_step # <<>> =>
    /\ DOMAIN opt_step.gradients = DOMAIN weights
    /\ \A v \in DOMAIN weights :
         /\ opt_step.gradients[v] # None
         /\ Len(opt_step.gradients[v]) = VarShape[v]
         /\ opt_step.tape[v] = None =>
              \A i \in 1..VarShape[v] : opt_step.gradients[v][i] = 0
         /\ opt_step.tape[v] # None => opt_step.gradients[v] = opt_step.tape[v]
    /\ ~opt_step.failed

\* C16 witness: a belief-span step after a response step: the response
\* decoder's variables exist, the backward pass gave them no gradient and the
\* list holds zeros for them.
C16_Witness ==
  /\ opt_step # <<>>
  /\ opt_step.name = "bspan"
  /\ "response_decoder" \in DOMAIN weights
  /\ opt_step.tape["response_decoder"] = None
  /\ opt_step.gradients["response_decoder"] = <<0, 0>>

\* C17: a training step leaves the variables it does not use as they are:
\* train_step_bspan those of the response decoder, train_step_response those
\* of the belief-span decoder.
C17_UnusedParametersUnchanged ==
  [][\A v \in DOMAIN weights :
       (v \notin UsedBy(opt_step'.name)) => weights'[v].theta = weights[v].theta]_vars

\* C18: a model whose d_model is not divisible by num_heads is never
\* constructed: the constructor fails, and no forward call is made on it.
C18_FailsAtConstruction ==
  (config.d_model % config.num_heads # 0) =>
    /\ model_pc # "constructed"
    /\ n_calls = 0

\* C20: a forward call that returns gives a new attention-weight map whose
\* keys are exactly decoder_layer<i>_block1 and decoder_layer<i>_block2 for
\* 1 <= i <= num_layers, 2 * num_layers entries, each holding the weights of
\* this call; the logits Transformer.bspan returns have the shape (batch,
\* target length, vocab_size + 1).
C20_AttentionMapAndShape ==
  (shape_call # <<>> /\ shape_call.raised = "") =>
    LET map == shape_call.attention_weights
        B == shape_call.tar[1]
        T == shape_call.tar[2]
        S == shape_call.inp[2]
    IN /\ DOMAIN map.entries =
            {[decoder_layer |-> i, block |-> 1] : i \in 1..config.num_layers} \cup
            {[decoder_layer |-> i, block |-> 2] : i \in 1..config.num_layers}
       /\ Cardinality(DOMAIN map.entries) = 2 * config.num_layers
       /\ map.id = n_calls
       /\ \A key \in DOMAIN map.entries :
            /\ map.entries[key][1] = B
            /\ map.entries[key][3] = T
            /\ map.entries[key][4] = (IF key.block = 1 THEN T ELSE S)
       /\ shape_call.method = "bspan" =>
            shape_call.logits = <<B, T, config.vocab_size + 1>>

\* C20 witness: the second call on a model of two layers or more, a
\* belief-span call on a target of two positions or more.
C20_Witness ==
  /\ shape_call # <<>>
  /\ shape_call.raised = ""
  /\ shape_call.method = "bspan"
  /\ n_calls >= 2
  /\ config.num_layers >= 2
  /\ shape_call.tar[2] >= 2
  /\ shape_call.inp[2] # shape_call.tar[2]

\* C21: a forward call on an input or a target longer than the precomputed
\* positional encoding raises an error and returns nothing.
C21_LengthExceededFails ==
  (/\ shape_call # <<>>
   /\ \/ shape_call.inp[2] > PeInput(config)
      \/ shape_call.tar[2] > PeTarget(config)) =>
    shape_call.raised # ""

\* C22: a belief-span decode stops on EOS_Z2 and on no other id, a response
\* decode on EOS_M and on no other id, every other predicted id being
\* appended to the output; a call with any other decoder name fails its
\* assertion with no decoder invocation made.
C22_EndMarkerByTask ==
  LET stop_id == IF ar_decoder = "bspan" THEN Encode("EOS_Z2") ELSE Encode("EOS_M")
  IN /\ ar_decoder \in {"bspan", "response"} =>
          /\ ar_pc # "AssertionError"
          /\ \A k \in DOMAIN ar_preds :
               IF ar_preds[k] = stop_id
               THEN k = Len(ar_preds) /\ ar_stop = "eos" /\ Len(ar_result) = k
               ELSE Len(output) > k /\ output[k + 1] = ar_preds[k]
          /\ ar_stop = "eos" => ar_preds # <<>> /\ Last(ar_preds) = stop_id
     /\ ar_decoder \notin {"bspan", "response", "none"} =>
          /\ ar_pc = "AssertionError"
          /\ ar_calls = 0
          /\ ar_preds = <<>>

\* C22 witness: a belief-span decode that was predicted EOS_Z1 and EOS_M,
\* appended both and went on to the end of the loop.
C22_Witness ==
  /\ ar_decoder = "bspan"
  /\ ar_pc = "returned"
  /\ ar_stop = "maxlen"
  /\ \E k, j \in DOMAIN ar_preds :
       ar_preds[k] = Encode("EOS_Z1") /\ ar_preds[j] = Encode("EOS_M")

\* C23: every row of a decoder input built for training or for inference
\* holds the start marker id vocab_size at its first position and nowhere
\* else.
C23_StartMarkerOnlyFirst ==
  \A tensor \in {input_sequence, bspan_decoder_input, response_decoder_input} :
    \A b \in DOMAIN tensor :
      /\ tensor[b][1] = VocabSize
      /\ \A k \in 2..Len(tensor[b]) : tensor[b][k] # VocabSize

\* the number of events of a training step and phase in a log
RECURSIVE CountEvents(_, _, _)
CountEvents(log, step, phase) ==
  IF log = <<>> THEN 0
  ELSE (IF Head(log)[1] = step /\ Head(log)[2] = phase THEN 1 ELSE 0)
       + CountEvents(Tail(log), step, phase)

\* C24: with n the number of turns train_model has processed, the one step
\* counter of the optimizer stands at 2n between turns, the belief-span update
\* of the next turn is made at step 2n and its response update at step
\* 2n + 1, the step after.
C24_TwoUpdatesPerTurn ==
  LET n == CountEvents(tlog, "response", "apply")
  IN /\ iterations = CountEvents(tlog, "bspan", "apply") + n
     /\ tr_pc \in {"response_forward", "response_apply"} => iterations = 2 * n + 1
     /\ tr_pc \notin {"response_forward", "response_apply"} => iterations = 2 * n

\* C24 witness: the response update of a turn of the second epoch is about to
\* be made.
C24_Witness ==
  /\ tr_pc = "response_apply"
  /\ epoch >= 1
  /\ iterations >= 5
====
